---- MODULE Spec2Model ----
(***************************************************************************)
(* Model of ccTool.py (kunhe-css-lab/ccMainTool): the Common Crawl index   *)
(* scan (resolve_num_parquet_files, scan_and_filter_index_duckdb), the     *)
(* size-guarded save (save_filtered_index_if_small) and the WARC text      *)
(* extraction (fetch_text_from_warc, save_text_content).                   *)
(*                                                                         *)
(* Strings whose contents the code inspects are sequences of one-character *)
(* strings (url, keyword, content_languages); an extracted text is the     *)
(* sequence of its whitespace-free words.  None is Python's None and NULL  *)
(* is SQL's NULL.                                                          *)
(***************************************************************************)
EXTENDS Integers, Sequences, FiniteSets, TLC

VARIABLES
    \* ---- resolve_num_parquet_files / scan_and_filter_index_duckdb
    warc_parquet_paths, \* the manifest: a sequence of shard names
    scan_all_parquet,   \* SCAN_ALL_PARQUET
    requested,          \* the num_parquet_files argument of resolve_num_parquet_files
    keywords,           \* the keyword list
    num_parquet_files,  \* what resolve_num_parquet_files returned, passed to the scan
    scanPos,            \* number of shards of paths[:num_parquet_files] the loop has consumed
    all_filtered,       \* line 74: the per-shard frames appended so far
    attempted,          \* history: the manifest positions whose query was executed, in order
    readShards,         \* history: the positions whose shard was read over the network
    failedAt,           \* history: the positions whose query raised
    filtered_df,        \* the MatchSet: result of the scan, input of the save
    reportedTotal,      \* the shard total printed at line 120
    pcScan,             \* "idle" | "resolve" | "start" | "loop" | "done" | "config_error"
    \* ---- save_filtered_index_if_small
    max_bytes,          \* max_gb, in bytes
    dirExists,          \* whether os.path.dirname(output_path) exists
    destFile,           \* what is at output_path
    fsBefore,           \* history: dirExists and destFile when the call began
    dfBefore,           \* history: filtered_df when the call began
    persistRet,         \* "unset" | "output_path" | "None"
    pcPersist,          \* "idle" | "start" | "to_parquet" | "writing" | "returned" | "raised"
    \* ---- the WHERE clause applied to one row
    filterRow,          \* a row of a shard
    rowResult,          \* "none" | "kept" | "dropped" | "raised"
    pcFilter,           \* "idle" | "eval" | "done"
    \* ---- save_text_content / fetch_text_from_warc
    matches,           \* filtered_df passed to save_text_content: a sequence of rows
    max_records,       \* the max_records argument, a number or None
    total_to_process,  \* line 220
    pos,               \* number of rows of head(total_to_process) the loop has consumed
    saved_count,       \* line 226 / 249
    files,             \* output_dir: file name -> content written by this run
    writeLog,          \* history: the <<file name, input position>> of every open(..., "w")
    fetched,           \* history: the input positions passed to fetch_text_from_warc, in order
    responses,         \* history: what the remote did for each fetched position
    extractRet,        \* value returned by save_text_content (None before it returns)
    pcExtract          \* "idle" | "start" | "loop" | "awaiting" | "done" | "aborted"

extractVars == <<matches, max_records, total_to_process, pos, saved_count, files,
                 writeLog, fetched, responses, extractRet, pcExtract>>

scanVars == <<warc_parquet_paths, scan_all_parquet, requested, keywords,
              num_parquet_files, scanPos, all_filtered, attempted, readShards, failedAt,
              filtered_df, reportedTotal, pcScan>>

filterVars == <<filterRow, rowResult, pcFilter>>

persistVars == <<max_bytes, dirExists, destFile, fsBefore, dfBefore, persistRet, pcPersist>>

vars == <<scanVars, persistVars, filterVars, extractVars>>

\* Python values of mixed type are tagged records: an int or None for
\* max_records, a str or None for what fetch_text_from_warc returns.
NoneInt == [isNone |-> TRUE, n |-> 0]

PyInt(k) == [isNone |-> FALSE, n |-> k]

NoneStr == [kind |-> "None", words |-> <<>>]

Str(ws) == [kind |-> "str", words |-> ws]

\* An exception leaving the callee instead of a returned value.
Raised == [kind |-> "raised", words |-> <<>>]

Min(a, b) == IF a <= b THEN a ELSE b

\* All sequences over S of length lo..hi.
SeqsOf(S, lo, hi) == UNION {[1..n -> S] : n \in lo..hi}

(***************************************************************************)
(* Bounds of the model.                                                    *)
(***************************************************************************)
MaxRecords == 5

MaxShards == 3

MaxKeywords == 2

MaxKeywordLen == 2

MaxUrlLen == 2

MaxMatchRows == 2

MaxBytes == 8

RECURSIVE Flatten(_)
Flatten(ss) == IF ss = <<>> THEN <<>> ELSE Head(ss) \o Flatten(Tail(ss))

(***************************************************************************)
(*        The WHERE clause of the shard query  (ccTool.py 68-72, 86-92)     *)
(***************************************************************************)

\* SQL NULL for a string column.
NULL == <<"<NULL>">>

\* SQL's three truth values.
T3 == "true"

F3 == "false"

N3 == "null"

And3(a, b) ==
    IF a = F3 \/ b = F3 THEN F3 ELSE IF a = N3 \/ b = N3 THEN N3 ELSE T3

Or3(a, b) ==
    IF a = T3 \/ b = T3 THEN T3 ELSE IF a = N3 \/ b = N3 THEN N3 ELSE F3

Lower(c) ==
    CASE c = "A" -> "a"
      [] c = "B" -> "b"
      [] c = "E" -> "e"
      [] c = "N" -> "n"
      [] c = "G" -> "g"
      [] OTHER -> c

LowerStr(str) == [k \in 1..Len(str) |-> Lower(str[k])]

\* Line 71 pastes the keyword between single quotes without escaping it.  The
\* SQL parser reads '' inside a literal as one quote character; any other
\* quote ends the literal early and what follows it no longer parses.
RECURSIVE SqlLiteral(_)
SqlLiteral(k) ==
    IF k = <<>> THEN [ok |-> TRUE, chars |-> <<>>]
    ELSE IF Head(k) # "'"
         THEN LET rest == SqlLiteral(Tail(k))
              IN  [ok |-> rest.ok, chars |-> <<Head(k)>> \o rest.chars]
         ELSE IF Len(k) >= 2 /\ k[2] = "'"
              THEN LET rest == SqlLiteral(Tail(Tail(k)))
                   IN  [ok |-> rest.ok, chars |-> <<"'">> \o rest.chars]
              ELSE [ok |-> FALSE, chars |-> <<>>]

\* con.execute(query) raises before any read: an empty keyword list leaves
\* "WHERE () AND ..." (line 89), a stray quote leaves a malformed statement.
QueryRaises(kws) ==
    \/ kws = <<>>
    \/ \E j \in 1..Len(kws) : ~SqlLiteral(kws[j]).ok

\* LIKE on lower-cased operands: % matches any run of characters, _ any one.
RECURSIVE LikeMatch(_, _)
LikeMatch(pat, str) ==
    IF pat = <<>> THEN str = <<>>
    ELSE IF Head(pat) = "%"
         THEN LikeMatch(Tail(pat), str) \/ (str # <<>> /\ LikeMatch(pat, Tail(str)))
         ELSE /\ str # <<>>
              /\ (Head(pat) = "_" \/ Head(pat) = Head(str))
              /\ LikeMatch(Tail(pat), Tail(str))

\* value ILIKE pattern.
ILike(value, pat) ==
    IF value = NULL THEN N3
    ELSE IF LikeMatch(LowerStr(pat), LowerStr(value)) THEN T3 ELSE F3

\* Line 71: url ILIKE '%{k}%'.
KeywordCondition(r, k) == ILike(r.url, <<"%">> \o SqlLiteral(k).chars \o <<"%">>)

\* Lines 70-72: the conditions joined by " OR ".
RECURSIVE KeywordConditions(_, _)
KeywordConditions(r, kws) ==
    IF Len(kws) = 1 THEN KeywordCondition(r, kws[1])
    ELSE Or3(KeywordCondition(r, Head(kws)), KeywordConditions(r, Tail(kws)))

\* Line 91: content_mime_type = 'text/html'.
MimeCondition(r) ==
    IF r.content_mime_type = NULL THEN N3
    ELSE IF r.content_mime_type = <<"text/html">> THEN T3 ELSE F3

\* Lines 89-91: a row is returned when the WHERE clause is true (not null).
WhereClause(r, kws) ==
    And3(And3(KeywordConditions(r, kws),
              ILike(r.content_languages, <<"%", "e", "n", "g", "%">>)),
         MimeCondition(r))

RowMatches(r, kws) == WhereClause(r, kws) = T3

\* Lines 86-96: the rows of one shard the query returns, in the shard's order.
ShardQuery(rows, kws) == SelectSeq(rows, LAMBDA r : RowMatches(r, kws))

(***************************************************************************)
(*            resolve_num_parquet_files  (ccTool.py 30-49)                  *)
(***************************************************************************)

resolve_num_parquet_files(paths, scan_all, num) ==
    IF scan_all THEN Len(paths) ELSE num

(***************************************************************************)
(*          scan_and_filter_index_duckdb  (ccTool.py 54-123)                *)
(***************************************************************************)

ENG == <<"e", "n", "g">>

HTML == <<"text/html">>

\* The shards of the manifest and the rows each holds.
ShardNames == {"s1", "s2", "s3"}

ShardRows(name) ==
    CASE name = "s1" ->
            << [url |-> <<"a", "x">>, content_languages |-> ENG, content_mime_type |-> HTML],
               [url |-> <<"y">>, content_languages |-> ENG, content_mime_type |-> HTML],
               [url |-> <<"a", "x">>, content_languages |-> ENG, content_mime_type |-> HTML] >>
      [] name = "s2" ->
            << [url |-> <<"B">>, content_languages |-> <<"f", "r", "a", ",", "E", "N", "G">>,
                content_mime_type |-> HTML],
               [url |-> <<"a">>, content_languages |-> ENG,
                content_mime_type |-> <<"application/pdf">>] >>
      [] name = "s3" ->
            << [url |-> <<"A", "b">>, content_languages |-> ENG, content_mime_type |-> HTML],
               [url |-> <<"a", "x">>, content_languages |-> ENG, content_mime_type |-> HTML],
               [url |-> NULL, content_languages |-> ENG, content_mime_type |-> HTML] >>

\* The keyword lists the scan is run with.
ScanKeywordLists ==
    { <<>>,
      << <<"a">> >>,
      << <<"a">>, <<"b">> >>,
      << <<"z">> >>,
      << <<"a", "'">> >> }

\* warc_parquet_paths[:n] for n >= 0.
SlicePrefix(paths, n) == SubSeq(paths, 1, Min(n, Len(paths)))

\* Lines 98-99: a frame is kept only when it has rows.
AppendPart(parts, df_part) ==
    IF Len(df_part) > 0 THEN Append(parts, df_part) ELSE parts

\* Rows of df in order, each row once.
RECURSIVE DropDuplicates(_)
DropDuplicates(df) ==
    IF df = <<>> THEN <<>>
    ELSE LET front == DropDuplicates(SubSeq(df, 1, Len(df) - 1))
             last == df[Len(df)]
         IN  IF \E k \in 1..Len(front) : front[k] = last THEN front ELSE Append(front, last)

pd_concatDropDuplicates(parts) == DropDuplicates(Flatten(parts))

\* Lines 113-116: pd.concat(all_filtered, ignore_index=True), or an empty frame.
pd_concat(parts) == Flatten(parts)

IdleScan ==
    /\ warc_parquet_paths = <<>>
    /\ scan_all_parquet = FALSE
    /\ requested = 0
    /\ keywords = <<>>
    /\ num_parquet_files = 0
    /\ scanPos = 0
    /\ all_filtered = <<>>
    /\ attempted = <<>>
    /\ readShards = {}
    /\ failedAt = {}
    /\ filtered_df = <<>>
    /\ reportedTotal = 0
    /\ pcScan = "idle"

IdleFilter ==
    /\ filterRow = [url |-> NULL, content_languages |-> NULL, content_mime_type |-> NULL]
    /\ rowResult = "none"
    /\ pcFilter = "idle"

Absent == [state |-> "absent", rows |-> <<>>]

\* A file an earlier run left at output_path.
Stale == [state |-> "stale", rows |-> <<>>]

IdlePersist ==
    /\ max_bytes = 0
    /\ dirExists = FALSE
    /\ destFile = Absent
    /\ fsBefore = [dir |-> FALSE, file |-> Absent]
    /\ dfBefore = <<>>
    /\ persistRet = "unset"
    /\ pcPersist = "idle"

IdleExtract ==
    /\ matches = <<>>
    /\ max_records = NoneInt
    /\ total_to_process = 0
    /\ pos = 0
    /\ saved_count = 0
    /\ files = <<>>
    /\ writeLog = <<>>
    /\ fetched = <<>>
    /\ responses = <<>>
    /\ extractRet = NoneInt
    /\ pcExtract = "idle"

InitScan ==
    /\ warc_parquet_paths \in SeqsOf(ShardNames, 0, MaxShards)
    /\ scan_all_parquet \in BOOLEAN
    /\ requested \in 0..(MaxShards + 1)
    /\ keywords \in ScanKeywordLists
    /\ num_parquet_files = 0
    /\ scanPos = 0
    /\ all_filtered = <<>>
    /\ attempted = <<>>
    /\ readShards = {}
    /\ failedAt = {}
    /\ filtered_df = <<>>
    /\ reportedTotal = 0
    /\ pcScan = "resolve"
    /\ IdlePersist
    /\ IdleFilter
    /\ IdleExtract

\* cc_run.py 38-43: NUM_PARQUET_FILES = resolve_num_parquet_files(...).
ResolveNum ==
    /\ pcScan = "resolve"
    /\ num_parquet_files' =
          resolve_num_parquet_files(warc_parquet_paths, scan_all_parquet, requested)
    /\ pcScan' = "start"
    /\ UNCHANGED <<warc_parquet_paths, scan_all_parquet, requested, keywords, scanPos,
                   all_filtered, attempted, readShards, failedAt, filtered_df,
                   reportedTotal>>
    /\ UNCHANGED <<persistVars, filterVars, extractVars>>

\* Lines 66-77: the query text is built and the connection opened; nothing
\* looks at the keyword list.
ScanStart ==
    /\ pcScan = "start"
    /\ all_filtered' = <<>>
    /\ scanPos' = 0
    /\ pcScan' = "loop"
    /\ UNCHANGED <<warc_parquet_paths, scan_all_parquet, requested, keywords,
                   num_parquet_files, attempted, readShards, failedAt, filtered_df,
                   reportedTotal>>
    /\ UNCHANGED <<persistVars, filterVars, extractVars>>

\* Lines 80-107: one iteration.  The query raises when it does not parse;
\* otherwise the shard is read, and the read either raises (readFails) or
\* returns the matching rows.  Either exception is caught at line 104.
ScanShard ==
    /\ pcScan = "loop"
    /\ scanPos < Len(SlicePrefix(warc_parquet_paths, num_parquet_files))
    /\ LET j == scanPos + 1
           name == SlicePrefix(warc_parquet_paths, num_parquet_files)[j]
       IN  /\ scanPos' = j
           /\ attempted' = Append(attempted, j)
           /\ IF QueryRaises(keywords)
              THEN /\ failedAt' = failedAt \cup {j}
                   /\ UNCHANGED <<all_filtered, readShards>>
              ELSE \E readFails \in BOOLEAN :
                      /\ readShards' = readShards \cup {j}
                      /\ IF readFails
                         THEN /\ failedAt' = failedAt \cup {j}
                              /\ UNCHANGED all_filtered
                         ELSE /\ all_filtered' =
                                    AppendPart(all_filtered, ShardQuery(ShardRows(name), keywords))
                              /\ UNCHANGED failedAt
    /\ UNCHANGED <<warc_parquet_paths, scan_all_parquet, requested, keywords,
                   num_parquet_files, filtered_df, reportedTotal, pcScan>>
    /\ UNCHANGED <<persistVars, filterVars, extractVars>>

\* Lines 109-123.
ScanFinish ==
    /\ pcScan = "loop"
    /\ scanPos >= Len(SlicePrefix(warc_parquet_paths, num_parquet_files))
    /\ filtered_df' = pd_concat(all_filtered)
    /\ reportedTotal' = num_parquet_files
    /\ pcScan' = "done"
    /\ UNCHANGED <<warc_parquet_paths, scan_all_parquet, requested, keywords,
                   num_parquet_files, scanPos, all_filtered, attempted, readShards,
                   failedAt>>
    /\ UNCHANGED <<persistVars, filterVars, extractVars>>

NextScan == ResolveNum \/ ScanStart \/ ScanShard \/ ScanFinish

SpecScan == InitScan /\ [][NextScan]_vars

(***************************************************************************)
(*          save_filtered_index_if_small  (ccTool.py 128-151)               *)
(***************************************************************************)

\* The rows a MatchSet handed to the save is made of.
PersistRows ==
    { [url |-> <<"a">>, content_languages |-> ENG, content_mime_type |-> HTML],
      [url |-> <<"a", "x">>, content_languages |-> ENG, content_mime_type |-> HTML],
      [url |-> <<"A", "b">>, content_languages |-> <<"f", "r", "a", ",", "e", "n", "g">>,
       content_mime_type |-> HTML] }

\* Line 140: memory_usage(deep=True).sum(), the string payloads included: one
\* byte per character, and one for the content type.
RowBytes(r) == Len(r.url) + Len(r.content_languages) + Len(r.content_mime_type)

RECURSIVE DeepSize(_)
DeepSize(df) == IF df = <<>> THEN 0 ELSE RowBytes(Head(df)) + DeepSize(Tail(df))

\* Lines 141, 145: memory_size_bytes / 1024**3 < max_gb.  Dividing by a power
\* of two is exact, so the test is memory_size_bytes < max_gb * 1024**3.
SizeBelowOrEqual(size, limit) == size <= limit

SizeBelow(size, limit) == size < limit

\* Line 146: what to_parquet leaves at output_path once it has finished, and
\* while it is writing.
CompleteFile(df) == [state |-> "complete", rows |-> df]

PartialFile(df) == [state |-> "partial", rows |-> SubSeq(df, 1, Len(df) \div 2)]

InitPersist ==
    /\ filtered_df \in SeqsOf(PersistRows, 0, MaxMatchRows)
    /\ max_bytes \in 0..MaxBytes
    /\ fsBefore \in { [dir |-> FALSE, file |-> Absent],
                      [dir |-> TRUE, file |-> Absent],
                      [dir |-> TRUE, file |-> Stale] }
    /\ dirExists = fsBefore.dir
    /\ destFile = fsBefore.file
    /\ dfBefore = filtered_df
    /\ persistRet = "unset"
    /\ pcPersist = "start"
    /\ warc_parquet_paths = <<>>
    /\ scan_all_parquet = FALSE
    /\ requested = 0
    /\ keywords = <<>>
    /\ num_parquet_files = 0
    /\ scanPos = 0
    /\ all_filtered = <<>>
    /\ attempted = <<>>
    /\ readShards = {}
    /\ failedAt = {}
    /\ reportedTotal = 0
    /\ pcScan = "idle"
    /\ IdleFilter
    /\ IdleExtract

\* Lines 138-145 and the else branch, 149-151.
PersistBegin ==
    /\ pcPersist = "start"
    /\ dirExists' = TRUE
    /\ IF SizeBelow(DeepSize(filtered_df), max_bytes)
       THEN /\ pcPersist' = "to_parquet"
            /\ UNCHANGED persistRet
       ELSE /\ pcPersist' = "returned"
            /\ persistRet' = "None"
    /\ UNCHANGED <<max_bytes, destFile, fsBefore, dfBefore>>
    /\ UNCHANGED <<scanVars, filterVars, extractVars>>

\* Line 146: to_parquet opens output_path itself for writing, which creates
\* or truncates it.
WriteOpen ==
    /\ pcPersist = "to_parquet"
    /\ destFile' = PartialFile(filtered_df)
    /\ pcPersist' = "writing"
    /\ UNCHANGED <<max_bytes, dirExists, fsBefore, dfBefore, persistRet>>
    /\ UNCHANGED <<scanVars, filterVars, extractVars>>

\* Lines 146-148: the write runs to its end and the path is returned.
WriteFinish ==
    /\ pcPersist = "writing"
    /\ destFile' = CompleteFile(filtered_df)
    /\ persistRet' = "output_path"
    /\ pcPersist' = "returned"
    /\ UNCHANGED <<max_bytes, dirExists, fsBefore, dfBefore>>
    /\ UNCHANGED <<scanVars, filterVars, extractVars>>

\* Line 146: the write raises part way (disk full, I/O error); the exception
\* leaves the function and nothing removes what was written.
WriteFail ==
    /\ pcPersist = "writing"
    /\ pcPersist' = "raised"
    /\ UNCHANGED <<max_bytes, dirExists, destFile, fsBefore, dfBefore, persistRet>>
    /\ UNCHANGED <<scanVars, filterVars, extractVars>>

NextPersist == PersistBegin \/ WriteOpen \/ WriteFinish \/ WriteFail

SpecPersist == InitPersist /\ [][NextPersist]_vars

(***************************************************************************)
(*               The WHERE clause on one row, for every input               *)
(***************************************************************************)

KeywordAlphabet == {"a", "A", "_", "'"}

UrlAlphabet == {"a", "A", "b"}

FilterRows ==
    { [url |-> u, content_languages |-> l, content_mime_type |-> m] :
        u \in SeqsOf(UrlAlphabet, 0, MaxUrlLen) \cup {NULL},
        l \in {NULL, ENG, <<"E", "n", "g">>, <<"f", "r", "a">>},
        m \in {NULL, HTML, <<"TEXT/HTML">>} }

InitFilter ==
    /\ keywords \in SeqsOf(SeqsOf(KeywordAlphabet, 1, MaxKeywordLen), 0, MaxKeywords)
    /\ filterRow \in FilterRows
    /\ rowResult = "none"
    /\ pcFilter = "eval"
    /\ warc_parquet_paths = <<>>
    /\ scan_all_parquet = FALSE
    /\ requested = 0
    /\ num_parquet_files = 0
    /\ scanPos = 0
    /\ all_filtered = <<>>
    /\ attempted = <<>>
    /\ readShards = {}
    /\ failedAt = {}
    /\ filtered_df = <<>>
    /\ reportedTotal = 0
    /\ pcScan = "idle"
    /\ IdlePersist
    /\ IdleExtract

\* Lines 86-95 for a shard holding the one row filterRow.
EvalFilter ==
    /\ pcFilter = "eval"
    /\ rowResult' =
          IF QueryRaises(keywords) THEN "raised"
          ELSE IF ShardQuery(<<filterRow>>, keywords) = <<filterRow>> THEN "kept"
          ELSE "dropped"
    /\ pcFilter' = "done"
    /\ UNCHANGED filterRow
    /\ UNCHANGED <<scanVars, persistVars, extractVars>>

NextFilter == EvalFilter

SpecFilter == InitFilter /\ [][NextFilter]_vars

(***************************************************************************)
(*                 fetch_text_from_warc  (ccTool.py 181-208)                *)
(***************************************************************************)

\* Line 199: the tags whose elements are decomposed before get_text.
ExcludedTags == {"script", "style", "nav", "footer", "header", "aside", "noscript"}

\* HTML payloads of a WARC record: a sequence of elements, each a tag and the
\* words of its text.
HtmlDocs ==
    { << [tag |-> "script", words |-> <<"x">>], [tag |-> "p", words |-> <<"Hello">>] >>,
      << [tag |-> "script", words |-> <<"x">>] >>,
      << [tag |-> "p", words |-> <<"Error:", "x">>] >> }

\* What the remote and the bytes it returns do for one row:
\*   http_error : requests.get / raise_for_status raises          (lines 190-191)
\*   bad_gzip   : gzip.decompress or ArchiveIterator raises       (lines 193-194)
\*   no_record  : the archive iterator yields no record           (line 194, 208)
\*   html       : one record is decoded, its payload is `doc`     (lines 195-203)
\*   no_answer  : the remote never answers; requests.get is called without a
\*                timeout (line 190), so the call does not return
Responses ==
    { [kind |-> "http_error", doc |-> <<>>],
      [kind |-> "bad_gzip", doc |-> <<>>],
      [kind |-> "no_record", doc |-> <<>>],
      [kind |-> "no_answer", doc |-> <<>>] }
    \cup { [kind |-> "html", doc |-> d] : d \in HtmlDocs }

\* Lines 197-202: drop the excluded elements, then the text of what is left.
get_text(doc) ==
    LET visible == SelectSeq(doc, LAMBDA e : e.tag \notin ExcludedTags)
    IN  Flatten([k \in 1..Len(visible) |-> visible[k].words])

\* Line 206: f"Error: {e}".
ErrorString(cause) == <<"Error:", cause>>

\* The value fetch_text_from_warc returns for a row whose remote answered:
\* the extracted text, an "Error: ..." string (every exception is caught at
\* line 205), or None (line 208).
fetch_text_from_warcUncaught(resp) ==
    CASE resp.kind \in {"http_error", "bad_gzip"} -> Raised
      [] resp.kind = "no_record" -> NoneStr
      [] OTHER -> Str(get_text(resp.doc))

fetch_text_from_warc(resp) ==
    CASE resp.kind = "http_error" -> Str(ErrorString("http"))
      [] resp.kind = "bad_gzip" -> Str(ErrorString("gzip"))
      [] resp.kind = "no_record" -> NoneStr
      [] OTHER -> Str(get_text(resp.doc))

(***************************************************************************)
(*                  save_text_content  (ccTool.py 210-253)                  *)
(***************************************************************************)

\* text.startswith("Error:") on a text given as its words.
StartsWithError(words) == Len(words) > 0 /\ words[1] = "Error:"

\* Line 237: `if text and not text.startswith("Error:")`; None and "" are falsy.
IsWritable(text) ==
    /\ text.kind = "str"
    /\ text.words # <<>>
    /\ ~StartsWithError(text.words)

\* Lines 217-220.
TotalToProcess(max, n) == IF max.isNone THEN n ELSE Min(max.n, n)

\* DataFrame.head(n) for n >= 0: the first n rows (all of them when n > len).
DfHead(df, n) == SubSeq(df, 1, Min(n, Len(df)))

\* The decimal digits of n, most significant first.
RECURSIVE Digits(_)
Digits(n) == IF n < 10 THEN <<n>> ELSE Digits(n \div 10) \o <<n % 10>>

\* Format spec 04d: zero-padded to a minimum width of 4.
Format04d(n) ==
    LET d == Digits(n)
    IN  IF Len(d) >= 4 THEN d ELSE [k \in 1..(4 - Len(d)) |-> 0] \o d

\* Line 238: the number in the file name is the running count of saved files.
FileNumberByInputIndex(saved, inputPos) == inputPos - 1

FileNumber(saved, inputPos) == saved

\* Line 238: f"doc_{saved_count:04d}.txt".
SafeFilename(n) == <<"doc_">> \o Format04d(n) \o <<".txt">>

\* Lines 241-247: the provenance header, then the text.
FileContent(row, text) == [url |-> row.url, text |-> text.words]

\* The rows of filtered_df; row j is identified by its url.
MatchRows(n) == [j \in 1..n |-> [url |-> j]]

InitExtract ==
    /\ matches \in {MatchRows(n) : n \in 0..MaxRecords}
    /\ max_records \in {PyInt(k) : k \in 0..(MaxRecords + 1)} \cup {NoneInt}
    /\ total_to_process = 0
    /\ pos = 0
    /\ saved_count = 0
    /\ files = <<>>
    /\ writeLog = <<>>
    /\ fetched = <<>>
    /\ responses = <<>>
    /\ extractRet = NoneInt
    /\ pcExtract = "start"
    /\ IdleScan
    /\ IdlePersist
    /\ IdleFilter

\* Lines 215-226.
ExtractStart ==
    /\ pcExtract = "start"
    /\ total_to_process' = TotalToProcess(max_records, Len(matches))
    /\ saved_count' = 0
    /\ pcExtract' = "loop"
    /\ UNCHANGED <<matches, max_records, pos, files, writeLog, fetched, responses,
                   extractRet>>
    /\ UNCHANGED <<scanVars, persistVars, filterVars>>

\* Lines 228-235 up to requests.get: the next row of head(total_to_process)
\* is taken and its byte range is requested; what the remote does with the
\* request is the environment's choice.
FetchCall ==
    /\ pcExtract = "loop"
    /\ pos < Len(DfHead(matches, total_to_process))
    /\ pos' = pos + 1
    /\ fetched' = Append(fetched, pos + 1)
    /\ \E r \in Responses : responses' = Append(responses, r)
    /\ pcExtract' = "awaiting"
    /\ UNCHANGED <<matches, max_records, total_to_process, saved_count, files,
                   writeLog, extractRet>>
    /\ UNCHANGED <<scanVars, persistVars, filterVars>>

\* Lines 190-249: the remote answers, fetch_text_from_warc returns and the rest
\* of the loop body runs.  There is no step for a remote that never answers.
FetchReturn ==
    /\ pcExtract = "awaiting"
    /\ responses[pos].kind # "no_answer"
    /\ LET row == matches[pos]
           text == fetch_text_from_warc(responses[pos])
           name == SafeFilename(FileNumber(saved_count, pos))
       IN  IF text.kind = "raised"
           THEN /\ pcExtract' = "aborted"
                /\ UNCHANGED <<saved_count, files, writeLog>>
           ELSE /\ pcExtract' = "loop"
                /\ IF IsWritable(text)
                   THEN /\ files' = [n \in (DOMAIN files) \cup {name} |->
                                        IF n = name THEN FileContent(row, text) ELSE files[n]]
                        /\ writeLog' = Append(writeLog, <<name, pos>>)
                        /\ saved_count' = saved_count + 1
                   ELSE UNCHANGED <<saved_count, files, writeLog>>
    /\ UNCHANGED <<matches, max_records, total_to_process, pos, fetched, responses,
                   extractRet>>
    /\ UNCHANGED <<scanVars, persistVars, filterVars>>

\* Lines 251-253.
ExtractFinish ==
    /\ pcExtract = "loop"
    /\ pos >= Len(DfHead(matches, total_to_process))
    /\ extractRet' = PyInt(saved_count)
    /\ pcExtract' = "done"
    /\ UNCHANGED <<matches, max_records, total_to_process, pos, saved_count, files,
                   writeLog, fetched, responses>>
    /\ UNCHANGED <<scanVars, persistVars, filterVars>>

NextExtract == ExtractStart \/ FetchCall \/ FetchReturn \/ ExtractFinish

SpecExtract == InitExtract /\ [][NextExtract]_vars

(***************************************************************************)
(*          The four parts of the program, each started on its own          *)
(***************************************************************************)
Init == InitScan \/ InitPersist \/ InitFilter \/ InitExtract

Next == NextScan \/ NextPersist \/ NextFilter \/ NextExtract

Spec == Init /\ [][Next]_vars

(***************************************************************************)
(*              Claims about the scan and its WHERE clause                  *)
(***************************************************************************)

\* The number of manifest entries the scan is asked for that exist.
ScanCount == Min(num_parquet_files, Len(warc_parquet_paths))

\* The matches of shards 1..n in shard order, a failed shard contributing
\* nothing, every row kept.
RECURSIVE ExpectedMatches(_)
ExpectedMatches(n) ==
    IF n = 0 THEN <<>>
    ELSE ExpectedMatches(n - 1) \o
         (IF n \in failedAt THEN <<>>
          ELSE ShardQuery(ShardRows(warc_parquet_paths[n]), keywords))

\* C1: the scan attempts each of the first N shards in order, a failing shard
\* never stopping the ones after it, and returns the concatenation, in shard
\* order and in each shard's row order, of the matches of the shards that did
\* not fail, duplicates kept.
C1_FailingShardsIsolated ==
    /\ attempted = [j \in 1..Len(attempted) |-> j]
    /\ Len(attempted) <= ScanCount
    /\ failedAt \subseteq 1..Len(attempted)
    /\ (pcScan = "loop" /\ Len(attempted) < ScanCount) => ENABLED ScanShard
    /\ (pcScan = "done") =>
          /\ Len(attempted) = ScanCount
          /\ filtered_df = ExpectedMatches(ScanCount)

\* Shard #2 of 3 errors; the matches of #1 and #3 are returned, the URL that
\* recurs in them more than once.
C1_Witness ==
    /\ pcScan = "done"
    /\ Len(warc_parquet_paths) = 3
    /\ failedAt = {2}
    /\ ShardQuery(ShardRows(warc_parquet_paths[1]), keywords) # <<>>
    /\ ShardQuery(ShardRows(warc_parquet_paths[3]), keywords) # <<>>
    /\ filtered_df = ShardQuery(ShardRows(warc_parquet_paths[1]), keywords)
                        \o ShardQuery(ShardRows(warc_parquet_paths[3]), keywords)
    /\ \E a, b \in 1..Len(filtered_df) : a # b /\ filtered_df[a] = filtered_df[b]

\* The effective shard count of the contract.
EffectiveCount ==
    IF scan_all_parquet THEN Len(warc_parquet_paths)
    ELSE Min(requested, Len(warc_parquet_paths))

\* C5: resolve_num_parquet_files returns the effective count (the manifest
\* length for "all", else min(requested, manifest length)); the scan reads
\* exactly that many leading shards and reports that number as its total.
C5_EffectiveCountResolved ==
    /\ (pcScan \in {"start", "loop", "done"}) => (num_parquet_files = EffectiveCount)
    /\ (pcScan = "done") =>
          /\ attempted = [j \in 1..EffectiveCount |-> j]
          /\ reportedTotal = EffectiveCount

\* C8: a scan given an empty keyword list reads no shard and never returns a
\* MatchSet; it ends as a configuration error.
C8_EmptyKeywordsRejected ==
    (keywords = <<>> /\ pcScan # "idle") => (readShards = {} /\ pcScan # "done")

\* url contains sub, case-insensitively.
ContainsNoCase(str, sub) ==
    \E k \in 0..(Len(str) - Len(sub)) :
        SubSeq(LowerStr(str), k + 1, k + Len(sub)) = LowerStr(sub)

\* C10: on every row and every non-empty keyword list the filter returns a
\* result (no keyword makes it raise), and the row is kept exactly when its url contains one of the keywords, its
\* content_languages contains "eng" (both case-insensitively) and its
\* content_mime_type is "text/html"; a row with a NULL field is never kept.
C10_FilterTotalFailsClosed ==
    (pcFilter = "done" /\ keywords # <<>>) =>
        /\ rowResult # "raised"
        /\ (rowResult = "kept") <=>
              /\ filterRow.url # NULL
              /\ filterRow.content_languages # NULL
              /\ filterRow.content_mime_type # NULL
              /\ \E j \in 1..Len(keywords) : ContainsNoCase(filterRow.url, keywords[j])
              /\ ContainsNoCase(filterRow.content_languages, ENG)
              /\ filterRow.content_mime_type = HTML

(***************************************************************************)
(*               Claims about save_filtered_index_if_small                  *)
(***************************************************************************)

\* What holds of the save whether or not the directory is counted.
SizeGuardCore ==
    /\ filtered_df = dfBefore
    /\ (DeepSize(dfBefore) >= max_bytes) => (destFile = fsBefore.file)
    /\ (pcPersist = "returned") =>
          /\ (persistRet = "output_path") <=> (DeepSize(dfBefore) < max_bytes)
          /\ (persistRet = "None") <=> (DeepSize(dfBefore) >= max_bytes)
          /\ (persistRet = "output_path") => (destFile = CompleteFile(dfBefore))

\* C6 as stated: the MatchSet is written and the path returned exactly when
\* the estimated size is strictly below the threshold; otherwise nothing is
\* returned and the file system is as it was; the MatchSet is unchanged.
C6_SizeGuardLeavesFileSystem ==
    /\ SizeGuardCore
    /\ (pcPersist = "returned" /\ persistRet = "None") =>
          (dirExists = fsBefore.dir /\ destFile = fsBefore.file)

\* C6 amended: as above, but in the too-large case it is the destination path
\* that is as it was (no file is created, replaced or removed there); the
\* destination's directory exists afterwards in both cases.
C6_SizeGuardLeavesDestination ==
    /\ SizeGuardCore
    /\ (pcPersist = "returned") => dirExists
    /\ (pcPersist = "returned" /\ persistRet = "None") => (destFile = fsBefore.file)

\* A MatchSet at the threshold is not saved: nothing is returned, no file
\* appears at the destination, and the directory has been created.
C6_Witness ==
    /\ pcPersist = "returned"
    /\ persistRet = "None"
    /\ dfBefore # <<>>
    /\ DeepSize(dfBefore) = max_bytes
    /\ ~fsBefore.dir
    /\ dirExists
    /\ destFile = Absent

\* C7: in every state the destination holds what it held before the save or
\* the complete serialized MatchSet.
C7_AtomicPersist ==
    (pcPersist # "idle") => (destFile = fsBefore.file \/ destFile = CompleteFile(dfBefore))

\* The scheduling of save_text_content: a single thread that takes its next
\* step whenever it has one.
FairSpecExtract == SpecExtract /\ WF_vars(NextExtract)

(***************************************************************************)
(*                    Claims about save_text_content                       *)
(***************************************************************************)

\* The number of records the contract says are processed.
ExpectedCount ==
    IF max_records.isNone THEN Len(matches) ELSE Min(max_records.n, Len(matches))

\* The rows whose loop body has run to its end.
Processed == IF pcExtract = "awaiting" THEN pos - 1 ELSE pos

FetchFailed(r) == r.kind = "http_error"

ParseFailed(r) == r.kind \in {"bad_gzip", "no_record"}

\* The record was fetched and decoded, and its text has visible content that
\* is not itself of the form "Error: ...".
VisibleText(r) ==
    /\ r.kind = "html"
    /\ \E k \in 1..Len(r.doc) :
          /\ r.doc[k].tag \notin ExcludedTags
          /\ r.doc[k].words # <<>>
    /\ \A k \in 1..Len(r.doc) :
          (r.doc[k].tag \notin ExcludedTags /\ r.doc[k].words # <<>>
              /\ \A h \in 1..(k - 1) : r.doc[h].tag \in ExcludedTags \/ r.doc[h].words = <<>>)
          => r.doc[k].words[1] # "Error:"

WritesFor(j) == {k \in 1..Len(writeLog) : writeLog[k][2] = j}

\* C2: save_text_content processes exactly the first min(max_records,
\* len(matches)) records (all of them when max_records is unset), in input
\* order and each once; a record whose fetch or parse fails writes no file and
\* does not stop the loop (the next record of the prefix is fetched, the run
\* never aborts); and a run over n records of which exactly one fails in the
\* fetch, the others decoding to visible text, writes n - 1 files (5 matches
\* with the fetch of #3 failing: 4 files).
C2_PrefixProcessedFailuresSkipped ==
    /\ pcExtract # "aborted"
    /\ fetched = [j \in 1..Len(fetched) |-> j]
    /\ Len(fetched) <= ExpectedCount
    /\ (pcExtract = "done") => (Len(fetched) = ExpectedCount)
    /\ (pcExtract = "loop" /\ Len(fetched) < ExpectedCount) => ENABLED FetchCall
    /\ \A j \in 1..Processed :
          (FetchFailed(responses[j]) \/ ParseFailed(responses[j])) => WritesFor(j) = {}
    /\ ( /\ pcExtract = "done"
         /\ \E j \in 1..ExpectedCount :
               /\ FetchFailed(responses[j])
               /\ \A h \in (1..ExpectedCount) \ {j} : VisibleText(responses[h]) )
       => Cardinality(DOMAIN files) = ExpectedCount - 1

\* Five matches, the fetch of #3 fails, the run ends with four files.
C2_Witness ==
    /\ pcExtract = "done"
    /\ Len(matches) = 5
    /\ max_records.isNone
    /\ Len(responses) = 5
    /\ FetchFailed(responses[3])
    /\ \A h \in {1, 2, 4, 5} : VisibleText(responses[h])
    /\ Cardinality(DOMAIN files) = 4

\* C3: every processed record whose fetch and decode both succeeded has
\* exactly one output document, also when its extracted text is empty, and
\* only such records have one.
C3_OneDocumentPerDecodedRecord ==
    \A j \in 1..Processed :
        IF responses[j].kind = "html"
        THEN Cardinality(WritesFor(j)) = 1
        ELSE WritesFor(j) = {}

\* The name doc_NNNN.txt of sequence number k, as the claim writes it.
DocName(k) ==
    <<"doc_", (k \div 1000) % 10, (k \div 100) % 10, (k \div 10) % 10, k % 10, ".txt">>

\* C4: at every point of a run the files written so far are exactly
\* doc_0000 .. doc_(k-1) for k the number of records written so far; the k-th
\* written record got number k-1 whatever its input position; no name was
\* written twice; and the value returned is the number of files written.
C4_GapFreeNumbering ==
    /\ Len(writeLog) = saved_count
    /\ DOMAIN files = {DocName(k) : k \in 0..(saved_count - 1)}
    /\ Cardinality(DOMAIN files) = saved_count
    /\ \A k \in 1..Len(writeLog) : writeLog[k][1] = DocName(k - 1)
    /\ \A a, b \in 1..Len(writeLog) : (a # b) => (writeLog[a][1] # writeLog[b][1])
    /\ (pcExtract = "done") => (extractRet = PyInt(Cardinality(DOMAIN files)))

\* A finished run in which a skipped record precedes a written one, so that
\* the sequence number and the input index have diverged.
C4_Witness ==
    /\ pcExtract = "done"
    /\ saved_count >= 2
    /\ \E k \in 1..Len(writeLog) : writeLog[k][2] > k
    /\ extractRet = PyInt(saved_count)

\* C9 (extraction): the run is at its end or has a step to take; no call
\* blocks it for ever.
C9_NoCallBlocksTheRun == (pcExtract = "done") \/ ENABLED NextExtract

\* C9 as a liveness property: every extraction run eventually ends.
C9_ExtractionTerminates == <>(pcExtract = "done")

====
